---- MODULE Spec2Model ----
(***************************************************************************)
(* Model of the specification search core of gathering-assistant          *)
(* (src/src/search_utils.py): the upstream query slot                     *)
(* (get_specification_async), the response parser (process_response), the *)
(* confidence aggregator (calculate_confidence) and the fan-out loop      *)
(* (search_specification); of the document entry point                    *)
(* (src/src/pdf_utils.py: process_pdf_for_specifications and              *)
(* process_gpt_response); and of the two routes of src/src/app.py         *)
(* (/get_specs and /process_pdf).                                         *)
(*                                                                         *)
(* Python strings are sequences of one-character strings, so that split,  *)
(* strip, lower, startswith and the f-string formatting are computed      *)
(* character by character as the interpreter computes them.  A float      *)
(* count / total is the reduced fraction [num, den].                      *)
(***************************************************************************)
EXTENDS Integers, Sequences, FiniteSets, TLC

VARIABLES
    pc,                 \* position of the running call
    spec_results,       \* calculate_confidence: its argument
    confidence_result,  \* calculate_confidence: its return value
    part_numbers,       \* search_specification: argument
    specifications,     \* search_specification: argument
    idx,                \* search_specification: position of the for loop over part_numbers
    tasks,              \* search_specification: the 3 coroutines handed to asyncio.gather
    all_results,        \* search_specification: the PartResults built so far
    surviving,          \* history: per part number gathered, how many slots returned a str
    response,           \* search_specification: the returned dict
    issued,             \* history: upstream queries posted so far by search_specification
    in_flight,          \* history: upstream queries posted and not yet answered
    completed,          \* history: the slots of the running gather, in the order they returned (SpecGather)
    parser_text,        \* process_response: its argument raw_response
    parser_fields,      \* process_response: its return value processed_specs
    pdf_reply,          \* process_pdf_for_specifications: what requests.post gave
    pdf_result,         \* process_pdf_for_specifications: its outcome
    request,            \* app.py: the HTTP request being handled
    http_response,      \* app.py: the reply of the route
    core_calls          \* history: the core functions the route has called

vars == <<pc, spec_results, confidence_result, part_numbers, specifications,
          idx, tasks, all_results, surviving, response, issued, in_flight, completed,
          parser_text, parser_fields, pdf_reply, pdf_result,
          request, http_response, core_calls>>

\* The variables of process_response called on its own, of the document entry
\* point and of the routes.
entry_vars == <<parser_text, parser_fields, pdf_reply, pdf_result,
                request, http_response, core_calls>>

\* Python values that are not always strings carry their type: None, a str, an int.
None == [type |-> "NoneType"]
Str(chars) == [type |-> "str", chars |-> chars]
IntVal(n) == [type |-> "int", n |-> n]

-----------------------------------------------------------------------------
(* Bounds *)

\* Longest field list handed to calculate_confidence on its own.
MaxFields == 4

-----------------------------------------------------------------------------
(* Python str methods on sequences of characters *)

NL == "\n"

UpperChars == <<"A", "B", "C", "D", "E", "F", "G", "H", "I", "J", "K", "L", "M",
                "N", "O", "P", "Q", "R", "S", "T", "U", "V", "W", "X", "Y", "Z">>
LowerChars == <<"a", "b", "c", "d", "e", "f", "g", "h", "i", "j", "k", "l", "m",
                "n", "o", "p", "q", "r", "s", "t", "u", "v", "w", "x", "y", "z">>

\* str.lower on one character.
LowerChar(c) ==
    IF \E k \in 1..Len(UpperChars) : UpperChars[k] = c
    THEN LowerChars[CHOOSE k \in 1..Len(UpperChars) : UpperChars[k] = c]
    ELSE c

\* str.lower
Lower(s) == [k \in 1..Len(s) |-> LowerChar(s[k])]

\* The characters str.strip() removes.
IsSpace(c) == c \in {" ", "\n", "\t", "\r"}

\* str.startswith
StartsWith(s, p) ==
    /\ Len(p) <= Len(s)
    /\ \A k \in 1..Len(p) : s[k] = p[k]

\* s[k:].startswith(p), k counted from 1.
MatchesAt(s, p, k) ==
    /\ k + Len(p) - 1 <= Len(s)
    /\ \A j \in 1..Len(p) : s[k + j - 1] = p[j]

\* Position of the first occurrence of p in s at or after k, 0 when there is none.
RECURSIVE FindFrom(_, _, _)
FindFrom(s, p, k) ==
    IF k + Len(p) - 1 > Len(s) THEN 0
    ELSE IF MatchesAt(s, p, k) THEN k
    ELSE FindFrom(s, p, k + 1)

\* str.find(p) + 1
Find(s, p) == FindFrom(s, p, 1)

\* p in s
Contains(s, p) == Find(s, p) # 0

\* str.strip()
Strip(s) ==
    LET keep == {k \in 1..Len(s) : ~IsSpace(s[k])}
    IN IF keep = {} THEN <<>>
       ELSE SubSeq(s, CHOOSE k \in keep : \A m \in keep : k <= m,
                      CHOOSE k \in keep : \A m \in keep : k >= m)

\* str.split(sep): every piece, empty ones included.
RECURSIVE Split(_, _)
Split(s, sep) ==
    LET at == Find(s, sep)
    IN IF at = 0 THEN <<s>>
       ELSE <<SubSeq(s, 1, at - 1)>> \o Split(SubSeq(s, at + Len(sep), Len(s)), sep)

\* str.split(sep, 1)[1]: what follows the first sep (callers check sep occurs).
AfterFirst(s, sep) == SubSeq(s, Find(s, sep) + Len(sep), Len(s))

\* str(n) for n >= 0.
DigitChars == <<"0", "1", "2", "3", "4", "5", "6", "7", "8", "9">>
RECURSIVE IntToStr(_)
IntToStr(n) ==
    IF n < 10 THEN <<DigitChars[n + 1]>>
    ELSE IntToStr(n \div 10) \o <<DigitChars[(n % 10) + 1]>>

\* sep.join(parts)
RECURSIVE Join(_, _)
Join(sep, parts) ==
    IF parts = <<>> THEN <<>>
    ELSE IF Len(parts) = 1 THEN parts[1]
    ELSE parts[1] \o sep \o Join(sep, Tail(parts))

-----------------------------------------------------------------------------
(* Floats that are ratios of two small integers *)

RECURSIVE GCD(_, _)
GCD(a, b) == IF b = 0 THEN a ELSE GCD(b, a % b)

\* count / total as a float: the reduced fraction.
Ratio(c, n) == [num |-> c \div GCD(c, n), den |-> n \div GCD(c, n)]

\* The float literals of calculate_confidence.
Zero == [num |-> 0, den |-> 1]
One == [num |-> 1, den |-> 1]
YellowThreshold == [num |-> 66, den |-> 100]

\* a >= b on floats
RatGeq(a, b) == a.num * b.den >= b.num * a.den

\* round(x * 100): the nearest integer.
IntTimes100_round(x) == (x.num * 200 + x.den) \div (2 * x.den)

\* int(x * 100)
IntTimes100(x) == (x.num * 100) \div x.den

-----------------------------------------------------------------------------
(* calculate_confidence *)

NoResultsFound == <<"N", "o", " ", "r", "e", "s", "u", "l", "t", "s", " ", "f", "o", "u", "n", "d">>
ConfidenceBasedOn == <<"%", " ", "c", "o", "n", "f", "i", "d", "e", "n", "c", "e", " ",
                       "b", "a", "s", "e", "d", " ", "o", "n", " ">>
MatchingResults == <<" ", "m", "a", "t", "c", "h", "i", "n", "g", " ",
                     "r", "e", "s", "u", "l", "t", "s">>
ReasoningJoiner == <<" ", "|", " ">>

\* EmptyResult falling through to the last status branch.
EmptyResult_red ==
    [value |-> <<"-">>,
     confidence |-> Zero,
     validation_status |-> "red",
     source |-> [url |-> <<>>, title |-> "", confidence_notes |-> NoResultsFound],
     reasoning |-> NoResultsFound]

\* The return for an empty list.
EmptyResult ==
    [value |-> <<"-">>,
     confidence |-> Zero,
     validation_status |-> "grey",
     source |-> [url |-> <<>>, title |-> "", confidence_notes |-> NoResultsFound],
     reasoning |-> NoResultsFound]

\* CountResult grouping values case-insensitively.
CountResult_caseless(value_counts, result) ==
    IF \E g \in 1..Len(value_counts) : Lower(value_counts[g].value) = Lower(result.value)
    THEN [g \in 1..Len(value_counts) |->
            IF Lower(value_counts[g].value) = Lower(result.value)
            THEN [value |-> value_counts[g].value,
                  count |-> value_counts[g].count + 1,
                  sources |-> Append(value_counts[g].sources, result.source),
                  reasoning |-> Append(value_counts[g].reasoning, result.reasoning)]
            ELSE value_counts[g]]
    ELSE Append(value_counts,
                [value |-> result.value, count |-> 1,
                 sources |-> <<result.source>>, reasoning |-> <<result.reasoning>>])

\* One step of the counting loop: value_counts is the dict in insertion order.
CountResult(value_counts, result) ==
    IF \E g \in 1..Len(value_counts) : value_counts[g].value = result.value
    THEN [g \in 1..Len(value_counts) |->
            IF value_counts[g].value = result.value
            THEN [value |-> value_counts[g].value,
                  count |-> value_counts[g].count + 1,
                  sources |-> Append(value_counts[g].sources, result.source),
                  reasoning |-> Append(value_counts[g].reasoning, result.reasoning)]
            ELSE value_counts[g]]
    ELSE Append(value_counts,
                [value |-> result.value, count |-> 1,
                 sources |-> <<result.source>>, reasoning |-> <<result.reasoning>>])

\* The counting loop over spec_results.
RECURSIVE ValueCounts(_)
ValueCounts(results) ==
    IF results = <<>> THEN <<>>
    ELSE CountResult(ValueCounts(SubSeq(results, 1, Len(results) - 1)),
                     results[Len(results)])

\* MostCommon keeping the last item of maximal count (>= in place of >).
MostCommon_last(value_counts) ==
    LET best == CHOOSE g \in 1..Len(value_counts) :
                    /\ \A h \in 1..Len(value_counts) :
                           value_counts[h].count <= value_counts[g].count
                    /\ \A h \in (g + 1)..Len(value_counts) :
                           value_counts[h].count < value_counts[g].count
    IN value_counts[best]

\* max(value_counts.items(), key=count): the first item of maximal count.
MostCommon(value_counts) ==
    LET best == CHOOSE g \in 1..Len(value_counts) :
                    /\ \A h \in 1..Len(value_counts) :
                           value_counts[h].count <= value_counts[g].count
                    /\ \A h \in 1..(g - 1) :
                           value_counts[h].count < value_counts[g].count
    IN value_counts[best]

\* ValidationStatus with the yellow threshold at one half.
ValidationStatus_half(confidence) ==
    IF confidence = One THEN "green"
    ELSE IF RatGeq(confidence, [num |-> 1, den |-> 2]) THEN "yellow"
    ELSE "red"

\* The if / elif / else on confidence.
ValidationStatus(confidence) ==
    IF confidence = One THEN "green"
    ELSE IF RatGeq(confidence, YellowThreshold) THEN "yellow"
    ELSE "red"

\* The confidence_notes f-string.
ConfidenceNotes(confidence, count, total) ==
    IntToStr(IntTimes100(confidence)) \o ConfidenceBasedOn \o IntToStr(count)
        \o <<"/">> \o IntToStr(total) \o MatchingResults

\* calculate_confidence titling the source "Source" whatever the number of sources.
calculate_confidence_onetitle(results) ==
    IF results = <<>> THEN EmptyResult
    ELSE LET details == MostCommon(ValueCounts(results))
             confidence == Ratio(details.count, Len(results))
         IN [value |-> details.value,
             confidence |-> confidence,
             validation_status |-> ValidationStatus(confidence),
             source |-> [url |-> details.sources[1],
                         title |-> "Source",
                         confidence_notes |->
                             ConfidenceNotes(confidence, details.count, Len(results))],
             reasoning |-> Join(ReasoningJoiner, details.reasoning)]

\* The function from the counting loop to the returned dict.
calculate_confidence(results) ==
    IF results = <<>> THEN EmptyResult
    ELSE LET details == MostCommon(ValueCounts(results))
             confidence == Ratio(details.count, Len(results))
         IN [value |-> details.value,
             confidence |-> confidence,
             validation_status |-> ValidationStatus(confidence),
             source |-> [url |-> details.sources[1],
                         title |-> IF Len(details.sources) > 1
                                   THEN "Multiple Sources" ELSE "Source",
                         confidence_notes |->
                             ConfidenceNotes(confidence, details.count, Len(results))],
             reasoning |-> Join(ReasoningJoiner, details.reasoning)]

-----------------------------------------------------------------------------
(* get_specification_async *)

\* What requests.post can do for one query: raise (timeout, connection error),
\* answer with a status other than 200, answer 200 with a body that is not
\* JSON, or answer 200 with a JSON body.
Timeout == [raises |-> "Timeout"]
ConnectionError == [raises |-> "ConnectionError"]
Status500 == [status_code |-> 500]
NotJson == [status_code |-> 200]
Ok200(body) == [status_code |-> 200, json |-> body]

\* JSON bodies of a 200 reply.
NoChoices == [id |-> "r1"]
EmptyChoices == [choices |-> <<>>]
NoMessage == [choices |-> <<[index |-> 0]>>]
NoContent == [choices |-> <<[message |-> [role |-> "assistant"]]>>]
WithContent(content) == [choices |-> <<[message |-> [content |-> content]]>>]

\* The value the coroutine returns for a reply of requests.post.
get_specification_async(reply) ==
    IF "raises" \in DOMAIN reply THEN None
    ELSE IF reply.status_code # 200 THEN None
    ELSE IF "json" \notin DOMAIN reply THEN None
    ELSE LET result == reply.json
         IN IF "choices" \notin DOMAIN result THEN None
            ELSE IF result.choices = <<>> THEN None
            ELSE IF "message" \notin DOMAIN result.choices[1] THEN None
            ELSE IF "content" \notin DOMAIN result.choices[1].message THEN None
            ELSE result.choices[1].message.content

-----------------------------------------------------------------------------
(* process_response *)

ValuePrefix == <<"v", "a", "l", "u", "e", ":">>
SourcePrefix == <<"s", "o", "u", "r", "c", "e", ":">>
ConfidencePrefix == <<"c", "o", "n", "f", "i", "d", "e", "n", "c", "e", ":">>

\* A dict.
EmptyDict == [key \in {} |-> <<>>]
\* dict.get(key, [])
Get(dict, key) == IF key \in DOMAIN dict THEN dict[key] ELSE <<>>

\* [s.strip() for s in raw_response.split('\n\n') if s.strip()]
Sections(raw_response) ==
    LET pieces == Split(raw_response, <<NL, NL>>)
    IN SelectSeq([k \in 1..Len(pieces) |-> Strip(pieces[k])], LAMBDA s : s # <<>>)

\* The condition that matches a section to a specification.
SectionMatches(section, spec) ==
    \/ StartsWith(Lower(section), Lower(spec))
    \/ Contains(Split(Lower(section), <<NL>>)[1], Lower(spec))

\* Index of the first matching section, 0 when the inner loop ends without a break.
MatchingSection(sections, spec) ==
    LET hits == {k \in 1..Len(sections) : SectionMatches(sections[k], spec)}
    IN IF hits = {} THEN 0 ELSE CHOOSE k \in hits : \A m \in hits : k <= m

\* ParseLine keeping what an earlier line of the section has set.
ParseLine_keepfirst(acc, rawline) ==
    LET line == Strip(rawline)
    IN IF StartsWith(Lower(line), ValuePrefix)
       THEN IF acc.value = <<"-">>
            THEN [acc EXCEPT !.value = Strip(AfterFirst(line, <<":">>))]
            ELSE acc
       ELSE IF StartsWith(Lower(line), SourcePrefix)
       THEN IF acc.source = <<>>
            THEN [acc EXCEPT !.source = Strip(AfterFirst(line, <<":">>))]
            ELSE acc
       ELSE IF StartsWith(Lower(line), ConfidencePrefix)
       THEN LET conf_text == Strip(AfterFirst(line, <<":">>))
            IN IF Contains(conf_text, <<",">>) /\ acc.reasoning = <<>>
               THEN [acc EXCEPT !.reasoning = Strip(AfterFirst(conf_text, <<",">>))]
               ELSE acc
       ELSE acc

\* One pass of the loop over the lines of a section.
ParseLine(acc, rawline) ==
    LET line == Strip(rawline)
    IN IF StartsWith(Lower(line), ValuePrefix)
       THEN [acc EXCEPT !.value = Strip(AfterFirst(line, <<":">>))]
       ELSE IF StartsWith(Lower(line), SourcePrefix)
       THEN [acc EXCEPT !.source = Strip(AfterFirst(line, <<":">>))]
       ELSE IF StartsWith(Lower(line), ConfidencePrefix)
       THEN LET conf_text == Strip(AfterFirst(line, <<":">>))
            IN IF Contains(conf_text, <<",">>)
               THEN [acc EXCEPT !.reasoning = Strip(AfterFirst(conf_text, <<",">>))]
               ELSE acc
       ELSE acc

\* The loop over the lines, from value = "-", source_url = "", reasoning = "".
RECURSIVE ParseLines(_)
ParseLines(lines) ==
    IF lines = <<>> THEN [value |-> <<"-">>, source |-> <<>>, reasoning |-> <<>>]
    ELSE ParseLine(ParseLines(SubSeq(lines, 1, Len(lines) - 1)), lines[Len(lines)])

\* ProcessSpec without the test on "-": every matched section yields a field.
ProcessSpec_keepdash(processed_specs, sections, spec) ==
    LET m == MatchingSection(sections, spec)
    IN IF m = 0 THEN processed_specs
       ELSE LET field == ParseLines(Split(sections[m], <<NL>>))
                prior == Get(processed_specs, spec)
            IN (spec :> Append(prior, field)) @@ processed_specs

\* The body of the loop over specifications, for one spec.
ProcessSpec(processed_specs, sections, spec) ==
    LET m == MatchingSection(sections, spec)
    IN IF m = 0 THEN processed_specs
       ELSE LET field == ParseLines(Split(sections[m], <<NL>>))
                prior == Get(processed_specs, spec)
            IN (spec :> (IF field.value # <<"-">> THEN Append(prior, field) ELSE prior))
                   @@ processed_specs

RECURSIVE ProcessSpecs(_, _)
ProcessSpecs(sections, specs) ==
    IF specs = <<>> THEN EmptyDict
    ELSE ProcessSpec(ProcessSpecs(sections, SubSeq(specs, 1, Len(specs) - 1)),
                     sections, specs[Len(specs)])

process_response(raw_response, specs) == ProcessSpecs(Sections(raw_response), specs)

-----------------------------------------------------------------------------
(* search_specification *)

\* Fan-out per part number: range(3).
Slots == 3

NoValidResults == "No valid results obtained for any part numbers"
\* str(e) of the AttributeError that raw_response.split raises on an int.
NoSplitAttribute == "'int' object has no attribute 'split'"

\* How many of the gathered values are a str: the slots that yielded an answer.
StrCount(results) == Cardinality({k \in 1..Len(results) : results[k].type = "str"})

\* [r for r in responses if r is not None]
Responses(results) == SelectSeq(results, LAMBDA r : r # None)

\* The loop that extends processed_results with one response's dict.
MergeInto(processed_results, result) ==
    [spec \in (DOMAIN processed_results) \cup (DOMAIN result) |->
        Get(processed_results, spec) \o Get(result, spec)]

\* The loop over the responses of one part number.
RECURSIVE ProcessResponses(_, _)
ProcessResponses(resps, specs) ==
    IF resps = <<>> THEN EmptyDict
    ELSE MergeInto(ProcessResponses(SubSeq(resps, 1, Len(resps) - 1), specs),
                   process_response(resps[Len(resps)].chars, specs))

\* FinalResults inserting each verdict at the front of final_results.
FinalResults_front(processed_results, specs) ==
    [j \in 1..Len(specs) |->
        [name |-> specs[Len(specs) + 1 - j]]
            @@ calculate_confidence(Get(processed_results, specs[Len(specs) + 1 - j]))]

\* final_results: one {"name": spec, **confidence_result} per specification.
FinalResults(processed_results, specs) ==
    [j \in 1..Len(specs) |->
        [name |-> specs[j]] @@ calculate_confidence(Get(processed_results, specs[j]))]

\* The dict appended to all_results for one part number.
PartResult(part_number, resps, specs) ==
    [part_number |-> part_number,
     specifications |-> FinalResults(ProcessResponses(resps, specs), specs)]

-----------------------------------------------------------------------------
(* Requests and upstream replies *)

\* Longest part_numbers list of a request.
MaxParts == 2

Wt == <<"W", "t">>
Ln == <<"L", "e", "n">>

\* Wt 2kg from a.com, Len not found.
AnswerA ==
    <<"W", "t", "\n", "V", "a", "l", "u", "e", ":", " ", "2", "k", "g", "\n", "S", "o",
      "u", "r", "c", "e", ":", " ", "a", ".", "c", "o", "m", "\n", "C", "o", "n", "f",
      "i", "d", "e", "n", "c", "e", ":", " ", "H", "i", "g", "h", ",", " ", "s", "h",
      "e", "e", "t", "\n", "\n", "L", "e", "n", "\n", "V", "a", "l", "u", "e", ":",
      " ", "-">>
\* Wt 3kg from b.com, Len 7cm.
AnswerB ==
    <<"W", "t", "\n", "V", "a", "l", "u", "e", ":", " ", "3", "k", "g", "\n", "S", "o",
      "u", "r", "c", "e", ":", " ", "b", ".", "c", "o", "m", "\n", "C", "o", "n", "f",
      "i", "d", "e", "n", "c", "e", ":", " ", "L", "o", "w", ",", " ", "f", "o", "r",
      "u", "m", "\n", "\n", "L", "e", "n", "\n", "V", "a", "l", "u", "e", ":", " ",
      "7", "c", "m", "\n", "S", "o", "u", "r", "c", "e", ":", " ", "b", ".", "c", "o",
      "m">>

Answers == {AnswerA, AnswerB}

\* The k-th part number of a request: "X1", "X2", ...
PartNumber(k) == <<"X">> \o IntToStr(k)

PartNumberLists == {[k \in 1..n |-> PartNumber(k)] : n \in 1..MaxParts}
SpecificationLists == {<<Wt>>, <<Ln, Wt>>}

\* Every reply the upstream can give to one query.
Replies ==
    {Timeout, ConnectionError, Status500, NotJson,
     Ok200(NoChoices), Ok200(EmptyChoices), Ok200(NoMessage), Ok200(NoContent),
     Ok200(WithContent(None)), Ok200(WithContent(IntVal(42)))}
        \cup {Ok200(WithContent(Str(a))) : a \in Answers}

Pending == [state |-> "pending"]
Done(result) == [state |-> "done", result |-> result]

IdleAggregator ==
    /\ spec_results = <<>>
    /\ confidence_result = None

IdleParser ==
    /\ parser_text = <<>>
    /\ parser_fields = None

\* Neither the document entry point nor a route is running.
IdlePdfAndWeb ==
    /\ pdf_reply = None
    /\ pdf_result = None
    /\ request = None
    /\ http_response = None
    /\ core_calls = <<>>

InitSearch ==
    /\ pc = "for"
    /\ part_numbers \in PartNumberLists
    /\ specifications \in SpecificationLists
    /\ idx = 1
    /\ tasks = <<>>
    /\ all_results = <<>>
    /\ surviving = <<>>
    /\ response = None
    /\ issued = 0
    /\ in_flight = 0
    /\ completed = <<>>
    /\ IdleAggregator
    /\ IdleParser
    /\ IdlePdfAndWeb

\* NextPart posting the queries of every remaining part number at once.
NextPart_ahead ==
    /\ pc = "for"
    /\ idx <= Len(part_numbers)
    /\ tasks' = [k \in 1..Slots |-> Pending]
    /\ issued' = issued + Slots * (Len(part_numbers) - idx + 1)
    /\ in_flight' = in_flight + Slots * (Len(part_numbers) - idx + 1)
    /\ completed' = <<>>
    /\ pc' = "gather"
    /\ UNCHANGED <<spec_results, confidence_result, part_numbers, specifications,
                   idx, all_results, surviving, response>>
    /\ UNCHANGED entry_vars

\* for part_number in part_numbers: build the 3 coroutines and await gather.
NextPart ==
    /\ pc = "for"
    /\ idx <= Len(part_numbers)
    /\ tasks' = [k \in 1..Slots |-> Pending]
    /\ issued' = issued + Slots
    /\ in_flight' = in_flight + Slots
    /\ completed' = <<>>
    /\ pc' = "gather"
    /\ UNCHANGED <<spec_results, confidence_result, part_numbers, specifications,
                   idx, all_results, surviving, response>>
    /\ UNCHANGED entry_vars

\* SlotDone posting the query again when the reply gave no answer.
SlotDone_retry(k) ==
    /\ pc = "gather"
    /\ tasks[k] = Pending
    /\ \E reply \in Replies :
           IF get_specification_async(reply) = None
           THEN /\ issued' = issued + 1
                /\ UNCHANGED <<tasks, in_flight>>
           ELSE /\ tasks' = [tasks EXCEPT ![k] = Done(get_specification_async(reply))]
                /\ in_flight' = in_flight - 1
                /\ UNCHANGED issued
    /\ UNCHANGED <<pc, spec_results, confidence_result, part_numbers, specifications,
                   idx, all_results, surviving, response, completed>>
    /\ UNCHANGED entry_vars

\* One coroutine runs to its return while gather is awaited.
SlotDone(k) ==
    /\ pc = "gather"
    /\ tasks[k] = Pending
    /\ \E reply \in Replies :
           tasks' = [tasks EXCEPT ![k] = Done(get_specification_async(reply))]
    /\ in_flight' = in_flight - 1
    /\ UNCHANGED <<pc, spec_results, confidence_result, part_numbers, specifications,
                   idx, all_results, surviving, response, issued,
                   completed>>
    /\ UNCHANGED entry_vars

\* Gathered returning as soon as one coroutine has returned: the loop body runs
\* on the results present and the coroutines still pending are abandoned.
Gathered_eager ==
    /\ pc = "gather"
    /\ \E k \in 1..Slots : tasks[k] # Pending
    /\ LET returned == SelectSeq(tasks, LAMBDA t : t # Pending)
           results == [k \in 1..Len(returned) |-> returned[k].result]
           resps == Responses(results)
       IN /\ IF resps = <<>>
             THEN /\ idx' = idx + 1
                  /\ pc' = "for"
                  /\ UNCHANGED <<all_results, response>>
             ELSE IF \E k \in 1..Len(resps) : resps[k].type # "str"
             THEN /\ response' = [error |-> NoSplitAttribute]
                  /\ pc' = "done"
                  /\ UNCHANGED <<all_results, idx>>
             ELSE /\ all_results' =
                         Append(all_results,
                                PartResult(part_numbers[idx], resps, specifications))
                  /\ idx' = idx + 1
                  /\ pc' = "for"
                  /\ UNCHANGED response
          /\ surviving' = Append(surviving, StrCount(results))
    /\ in_flight' = 0
    /\ UNCHANGED <<spec_results, confidence_result, part_numbers, specifications, tasks,
                   issued, completed>>
    /\ UNCHANGED entry_vars

\* Gathered with an except clause that also hands back the PartResults built so far.
Gathered_partial ==
    /\ pc = "gather"
    /\ \A k \in 1..Slots : tasks[k] # Pending
    /\ LET resps == Responses([k \in 1..Slots |-> tasks[k].result])
       IN IF resps = <<>>
          THEN /\ idx' = idx + 1
               /\ pc' = "for"
               /\ UNCHANGED <<all_results, response>>
          ELSE IF \E k \in 1..Len(resps) : resps[k].type # "str"
          THEN /\ response' = [error |-> NoSplitAttribute, results |-> all_results]
               /\ pc' = "done"
               /\ UNCHANGED <<all_results, idx>>
          ELSE /\ all_results' =
                      Append(all_results,
                             PartResult(part_numbers[idx], resps, specifications))
               /\ idx' = idx + 1
               /\ pc' = "for"
               /\ UNCHANGED response
    /\ surviving' = Append(surviving, StrCount([k \in 1..Slots |-> tasks[k].result]))
    /\ UNCHANGED <<spec_results, confidence_result, part_numbers, specifications, tasks,
                   issued, in_flight, completed>>
    /\ UNCHANGED entry_vars

\* Gathered reading the results in the order the coroutines returned
\* (asyncio.as_completed) instead of the order they were handed to gather.
Gathered_as_completed ==
    /\ pc = "gather"
    /\ \A k \in 1..Slots : tasks[k] # Pending
    /\ LET resps == Responses([j \in 1..Slots |-> tasks[completed[j]].result])
       IN IF resps = <<>>
          THEN /\ idx' = idx + 1
               /\ pc' = "for"
               /\ UNCHANGED <<all_results, response>>
          ELSE IF \E k \in 1..Len(resps) : resps[k].type # "str"
          THEN /\ response' = [error |-> NoSplitAttribute]
               /\ pc' = "done"
               /\ UNCHANGED <<all_results, idx>>
          ELSE /\ all_results' =
                      Append(all_results,
                             PartResult(part_numbers[idx], resps, specifications))
               /\ idx' = idx + 1
               /\ pc' = "for"
               /\ UNCHANGED response
    /\ surviving' = Append(surviving, StrCount([k \in 1..Slots |-> tasks[k].result]))
    /\ UNCHANGED <<spec_results, confidence_result, part_numbers, specifications, tasks,
                   issued, in_flight, completed>>
    /\ UNCHANGED entry_vars

\* gather returns once every coroutine has returned; the rest of the loop body.
Gathered ==
    /\ pc = "gather"
    /\ \A k \in 1..Slots : tasks[k] # Pending
    /\ LET resps == Responses([k \in 1..Slots |-> tasks[k].result])
       IN IF resps = <<>>
          THEN /\ idx' = idx + 1
               /\ pc' = "for"
               /\ UNCHANGED <<all_results, response>>
          ELSE IF \E k \in 1..Len(resps) : resps[k].type # "str"
          THEN /\ response' = [error |-> NoSplitAttribute]
               /\ pc' = "done"
               /\ UNCHANGED <<all_results, idx>>
          ELSE /\ all_results' =
                      Append(all_results,
                             PartResult(part_numbers[idx], resps, specifications))
               /\ idx' = idx + 1
               /\ pc' = "for"
               /\ UNCHANGED response
    /\ surviving' = Append(surviving, StrCount([k \in 1..Slots |-> tasks[k].result]))
    /\ UNCHANGED <<spec_results, confidence_result, part_numbers, specifications, tasks,
                   issued, in_flight, completed>>
    /\ UNCHANGED entry_vars

\* Return without the outer except: the exception raised when no part number
\* has a result leaves search_specification, which returns no dict.
Return_uncaught ==
    /\ pc = "for"
    /\ idx > Len(part_numbers)
    /\ IF all_results = <<>>
       THEN /\ pc' = "raised"
            /\ UNCHANGED response
       ELSE /\ response' = [results |-> all_results]
            /\ pc' = "done"
    /\ UNCHANGED <<spec_results, confidence_result, part_numbers, specifications,
                   idx, tasks, all_results, surviving, issued, in_flight, completed>>
    /\ UNCHANGED entry_vars

\* After the loop: raise (caught by the outer except) or return the results.
Return ==
    /\ pc = "for"
    /\ idx > Len(part_numbers)
    /\ response' = IF all_results = <<>>
                   THEN [error |-> NoValidResults]
                   ELSE [results |-> all_results]
    /\ pc' = "done"
    /\ UNCHANGED <<spec_results, confidence_result, part_numbers, specifications,
                   idx, tasks, all_results, surviving, issued, in_flight, completed>>
    /\ UNCHANGED entry_vars

-----------------------------------------------------------------------------
(* calculate_confidence called on its own: every field list up to MaxFields *)

\* Values, sources and reasonings the parsed fields are drawn from.
FieldValues == {<<"5", "0", "0", "g">>, <<"5", "0", "0", "G">>, <<"4", "5", "0", "g">>}
FieldSources == {<<"a">>, <<"b">>}

ParsedFields ==
    {[value |-> v, source |-> s, reasoning |-> s] : v \in FieldValues, s \in FieldSources}

RECURSIVE SeqsUpTo(_, _)
SeqsUpTo(S, n) ==
    IF n = 0 THEN {<<>>}
    ELSE LET shorter == SeqsUpTo(S, n - 1)
         IN shorter \cup {Append(q, x) : q \in {r \in shorter : Len(r) = n - 1}, x \in S}

IdleSearch ==
    /\ part_numbers = <<>>
    /\ specifications = <<>>
    /\ idx = 0
    /\ tasks = <<>>
    /\ all_results = <<>>
    /\ surviving = <<>>
    /\ response = None
    /\ issued = 0
    /\ in_flight = 0
    /\ completed = <<>>

InitAgg ==
    /\ pc = "aggregate"
    /\ spec_results \in SeqsUpTo(ParsedFields, MaxFields)
    /\ confidence_result = None
    /\ IdleSearch
    /\ IdleParser
    /\ IdlePdfAndWeb

Aggregate ==
    /\ pc = "aggregate"
    /\ confidence_result' = calculate_confidence(spec_results)
    /\ pc' = "aggregated"
    /\ UNCHANGED <<spec_results, part_numbers, specifications, idx, tasks,
                   all_results, surviving, response, issued, in_flight, completed>>
    /\ UNCHANGED entry_vars

-----------------------------------------------------------------------------
(* process_response called on its own: one answer text, one specification list *)

\* What follows the "Wt" header line of an answer: its Value lines.
ValueLines ==
    {<<>>,
     <<NL, "V", "a", "l", "u", "e", ":", " ", "-">>,
     <<NL, "V", "a", "l", "u", "e", ":", " ", " ", "-", " ">>,
     <<NL, "V", "a", "l", "u", "e", ":", " ", "\"", "-", "\"">>,
     <<NL, "V", "a", "l", "u", "e", ":">>,
     <<NL, "V", "a", "l", "u", "e", ":", " ", "2", "k", "g">>,
     <<NL, "V", "a", "l", "u", "e", ":", " ", "2", "k", "g", NL, "v", "a", "l", "u", "e",
       ":", " ", "-">>,
     <<NL, "V", "a", "l", "u", "e", ":", " ", "-", NL, "V", "A", "L", "U", "E", ":", " ",
       "2", "k", "g">>,
     <<NL, "V", "a", "l", "u", "e", ":", " ", "2", "k", "g", NL, "V", "a", "l", "u", "e",
       ":", " ", "3", "k", "g">>}

\* Its Source and Confidence lines.
SourceLines ==
    {<<>>,
     <<NL, "S", "o", "u", "r", "c", "e", ":", " ", "a", ".", "c", "o", "m", NL, "C", "o",
       "n", "f", "i", "d", "e", "n", "c", "e", ":", " ", "H", "i", "g", "h", ",", " ", "s",
       "h", "e", "e", "t">>,
     <<NL, "S", "o", "u", "r", "c", "e", ":", " ", "a", ".", "c", "o", "m", NL, "C", "o",
       "n", "f", "i", "d", "e", "n", "c", "e", ":", " ", "H", "i", "g", "h", ",", " ", "s",
       "h", "e", "e", "t", NL, "S", "O", "U", "R", "C", "E", ":", " ", "b", ".", "c", "o",
       "m", NL, "c", "o", "n", "f", "i", "d", "e", "n", "c", "e", ":", " ", "L", "o", "w",
       ",", " ", "f", "o", "r", "u", "m">>,
     <<NL, "S", "o", "u", "r", "c", "e", ":", " ", "a", ".", "c", "o", "m", NL, "C", "o",
       "n", "f", "i", "d", "e", "n", "c", "e", ":", " ", "H", "i", "g", "h", ",", " ", "s",
       "h", "e", "e", "t", NL, "s", "o", "u", "r", "c", "e", ":", " ", "b", ".", "c", "o",
       "m", NL, "C", "o", "n", "f", "i", "d", "e", "n", "c", "e", ":", " ", "L", "o",
       "w">>}

\* The section for "Len" that may follow.
LenSections ==
    {<<>>,
     <<NL, NL, "L", "e", "n", NL, "V", "a", "l", "u", "e", ":", " ", "-">>,
     <<NL, NL, "L", "e", "n", NL, "V", "a", "l", "u", "e", ":", " ", "7", "c", "m">>}

\* The answer texts handed to process_response.
ParserTexts ==
    {<<>>} \cup {Wt \o v \o s \o t : v \in ValueLines, s \in SourceLines, t \in LenSections}

InitParse ==
    /\ pc = "parse"
    /\ parser_text \in ParserTexts
    /\ parser_fields = None
    /\ specifications \in SpecificationLists
    /\ part_numbers = <<>>
    /\ idx = 0
    /\ tasks = <<>>
    /\ all_results = <<>>
    /\ surviving = <<>>
    /\ response = None
    /\ issued = 0
    /\ in_flight = 0
    /\ completed = <<>>
    /\ IdleAggregator
    /\ IdlePdfAndWeb

Parse ==
    /\ pc = "parse"
    /\ parser_fields' = process_response(parser_text, specifications)
    /\ pc' = "parsed"
    /\ UNCHANGED <<spec_results, confidence_result, part_numbers, specifications, idx,
                   tasks, all_results, surviving, response, issued, in_flight, completed,
                   parser_text>>
    /\ UNCHANGED <<pdf_reply, pdf_result, request, http_response, core_calls>>

NextParse == Parse

SpecParse == InitParse /\ [][NextParse]_vars

-----------------------------------------------------------------------------
(* pdf_utils.py: process_gpt_response and its extract_ helpers *)

ValueLabel == <<"v", "a", "l", "u", "e", ":">>
SourceLabel == <<"s", "o", "u", "r", "c", "e", ":">>
ConfidenceLabel == <<"c", "o", "n", "f", "i", "d", "e", "n", "c", "e", ":">>
Low == <<"L", "o", "w">>
NoConfidenceInformation ==
    <<"N", "o", " ", "c", "o", "n", "f", "i", "d", "e", "n", "c", "e", " ", "i", "n", "f",
      "o", "r", "m", "a", "t", "i", "o", "n", " ", "f", "o", "u", "n", "d">>
ConfidenceFromPdf ==
    <<"%", " ", "c", "o", "n", "f", "i", "d", "e", "n", "c", "e", " ", "f", "r", "o", "m",
      " ", "P", "D", "F", " ", "a", "n", "a", "l", "y", "s", "i", "s">>

\* Index of the first TRUE of a sequence of booleans, 0 when there is none.
FirstTrue(flags) ==
    LET hits == {k \in 1..Len(flags) : flags[k]}
    IN IF hits = {} THEN 0 ELSE CHOOSE k \in hits : \A m \in hits : k <= m

\* text.split("\n\n\n"), then the first section naming the part number, else
\* the whole text.
extract_part_section(text, part_number) ==
    LET sections == Split(text, <<NL, NL, NL>>)
        i == FirstTrue([k \in 1..Len(sections) |-> Contains(sections[k], part_number)])
    IN IF i # 0 THEN sections[i] ELSE text

\* The test that makes a line the header of the specification.
IsSpecHeader(line, spec_name) ==
    \/ Contains(Lower(line), Lower(spec_name))
    \/ Contains(line, <<"[">> \o spec_name \o <<"]">>)
    \/ Contains(line, <<"*", "*">> \o spec_name \o <<"*", "*">>)

\* The test that makes a later line the header of the next section.
IsNextHeader(line) ==
    /\ Contains(line, <<"[">>) \/ Contains(line, <<"*", "*">>)
    /\ ~Contains(line, <<":">>)

extract_spec_section(text, spec_name) ==
    LET lines == Split(text, <<NL>>)
        i == FirstTrue([k \in 1..Len(lines) |-> IsSpecHeader(lines[k], spec_name)])
    IN IF i = 0 THEN <<>>
       ELSE LET rest == SubSeq(lines, i + 1, Len(lines))
                j == FirstTrue([k \in 1..Len(rest) |-> IsNextHeader(rest[k])])
            IN IF j # 0 THEN Join(<<NL>>, SubSeq(lines, i, i + j - 1))
               ELSE Join(<<NL>>, SubSeq(lines, i, Len(lines)))

\* The first line of the section holding the label, stripped after its first
\* colon; the default when no line holds it.
LabelledText(spec_section, label, default) ==
    LET lines == Split(spec_section, <<NL>>)
        i == FirstTrue([k \in 1..Len(lines) |-> Contains(Lower(lines[k]), label)])
    IN IF i = 0 THEN default ELSE Strip(AfterFirst(lines[i], <<":">>))

extract_value(spec_section) == LabelledText(spec_section, ValueLabel, <<"-">>)

extract_source(spec_section) == LabelledText(spec_section, SourceLabel, <<>>)

\* str.split(',', 1)[0]
BeforeFirst(s, sep) == SubSeq(s, 1, Find(s, sep) - 1)

\* The pair (confidence, reasoning).
extract_confidence(spec_section) ==
    LET lines == Split(spec_section, <<NL>>)
        i == FirstTrue([k \in 1..Len(lines) |-> Contains(Lower(lines[k]), ConfidenceLabel)])
    IN IF i = 0 THEN <<Low, NoConfidenceInformation>>
       ELSE LET conf_text == Strip(AfterFirst(lines[i], <<":">>))
            IN IF Contains(conf_text, <<",">>)
               THEN <<Strip(BeforeFirst(conf_text, <<",">>)),
                      Strip(AfterFirst(conf_text, <<",">>))>>
               ELSE <<conf_text, <<>>>>

\* str.strip('%')
StripPercent(s) ==
    LET keep == {k \in 1..Len(s) : s[k] # "%"}
    IN IF keep = {} THEN <<>>
       ELSE SubSeq(s, CHOOSE k \in keep : \A m \in keep : k <= m,
                      CHOOSE k \in keep : \A m \in keep : k >= m)

\* int(s) for a string of decimal digits.
RECURSIVE DigitsToInt(_)
DigitsToInt(s) ==
    IF s = <<>> THEN 0
    ELSE 10 * DigitsToInt(SubSeq(s, 1, Len(s) - 1))
             + (CHOOSE d \in 0..9 : DigitChars[d + 1] = s[Len(s)])

\* float(s) / 100 for an unsigned decimal integer s; any other text of the
\* replies modelled is not a numeral and float raises ValueError: 0.0.
ParsePercent(s) ==
    IF s # <<>> /\ \A k \in 1..Len(s) : \E d \in 0..9 : DigitChars[d + 1] = s[k]
    THEN Ratio(DigitsToInt(s), 100)
    ELSE Zero

\* convert_confidence_to_float giving every answer the confidence of agreement.
convert_confidence_to_float_agreed(confidence) == One

\* The floats 1.0, 0.7 and 0.3 and the parsed percentage, as fractions.
convert_confidence_to_float(confidence) ==
    IF Contains(Lower(confidence), <<"h", "i", "g", "h">>) THEN One
    ELSE IF Contains(Lower(confidence), <<"m", "e", "d", "i", "u", "m">>)
    THEN [num |-> 7, den |-> 10]
    ELSE IF Contains(Lower(confidence), <<"l", "o", "w">>) THEN [num |-> 3, den |-> 10]
    ELSE ParsePercent(StripPercent(confidence))

get_validation_status(confidence) ==
    IF RatGeq(confidence, [num |-> 8, den |-> 10]) THEN "green"
    ELSE IF RatGeq(confidence, [num |-> 5, den |-> 10]) THEN "yellow"
    ELSE IF confidence.num > 0 THEN "red"
    ELSE "grey"

\* The dict appended to spec_results for one specification.
PdfSpecResult(part_section, spec_name) ==
    LET spec_section == extract_spec_section(part_section, spec_name)
    IN IF spec_section = <<>>
       THEN [name |-> spec_name] @@ EmptyResult
       ELSE LET confidence_float ==
                    convert_confidence_to_float(extract_confidence(spec_section)[1])
            IN [name |-> spec_name,
                value |-> extract_value(spec_section),
                confidence |-> confidence_float,
                validation_status |-> get_validation_status(confidence_float),
                source |-> [url |-> extract_source(spec_section),
                            title |-> "PDF Document",
                            confidence_notes |->
                                IntToStr(IntTimes100(confidence_float))
                                    \o ConfidenceFromPdf],
                reasoning |-> extract_confidence(spec_section)[2]]

\* One pass of the loop over part_numbers: the results with this part added,
\* or unchanged when the pass ends in continue.
PdfPart(results, raw_response, parts, specs, part_number) ==
    LET found == extract_part_section(raw_response, part_number)
    IN IF found = <<>> /\ Len(parts) # 1 THEN results
       ELSE LET part_section == IF found = <<>> THEN raw_response ELSE found
            IN Append(results,
                      [part_number |-> part_number,
                       specifications |->
                           [j \in 1..Len(specs) |-> PdfSpecResult(part_section, specs[j])]])

RECURSIVE PdfParts(_, _, _, _)
PdfParts(raw_response, parts, specs, n) ==
    IF n = 0 THEN <<>>
    ELSE PdfPart(PdfParts(raw_response, parts, specs, n - 1),
                 raw_response, parts, specs, parts[n])

process_gpt_response(raw_response, parts, specs) ==
    PdfParts(raw_response, parts, specs, Len(parts))

-----------------------------------------------------------------------------
(* pdf_utils.py: process_pdf_for_specifications *)

\* str(e) of what the try block can raise.
ApiRequestFailed == "API request failed with status 500: Internal Server Error"
ExpectingValue == "Expecting value: line 1 column 1 (char 0)"

\* The value the coroutine returns for a reply of requests.post.
process_pdf_for_specifications(reply, parts, specs) ==
    IF "raises" \in DOMAIN reply THEN [error |-> reply.raises]
    ELSE IF reply.status_code # 200 THEN [error |-> ApiRequestFailed]
    ELSE IF "json" \notin DOMAIN reply THEN [error |-> ExpectingValue]
    ELSE LET result == reply.json
         IN IF "choices" \notin DOMAIN result THEN None
            ELSE IF result.choices = <<>> THEN None
            ELSE IF "message" \notin DOMAIN result.choices[1] THEN None
            ELSE IF "content" \notin DOMAIN result.choices[1].message THEN None
            ELSE LET raw_response == result.choices[1].message.content
                 IN IF parts = <<>> THEN [results |-> <<>>]
                    ELSE IF raw_response.type = "NoneType"
                    THEN [error |-> "'NoneType' object has no attribute 'split'"]
                    ELSE IF raw_response.type # "str"
                    THEN [error |-> NoSplitAttribute]
                    ELSE [results |->
                              process_gpt_response(raw_response.chars, parts, specs)]

\* The lines of a Wt block of a model reply: value with source, confidence.
FoundValue == <<NL, "V", "a", "l", "u", "e", ":", " ", "2", "k", "g", NL, "S", "o", "u",
                "r", "c", "e", ":", " ", "p", "5">>
DashValue == <<NL, "V", "a", "l", "u", "e", ":", " ", "-">>
DocValueLines == {FoundValue, DashValue}

HighLine == <<NL, "C", "o", "n", "f", "i", "d", "e", "n", "c", "e", ":", " ", "H", "i",
              "g", "h", ",", " ", "t", "a", "b", "l", "e">>
MediumLine == <<NL, "C", "o", "n", "f", "i", "d", "e", "n", "c", "e", ":", " ", "M", "e",
                "d", "i", "u", "m", ",", " ", "t", "a", "b", "l", "e">>
LowLine == <<NL, "C", "o", "n", "f", "i", "d", "e", "n", "c", "e", ":", " ", "L", "o", "w",
             ",", " ", "t", "a", "b", "l", "e">>
PercentLine == <<NL, "C", "o", "n", "f", "i", "d", "e", "n", "c", "e", ":", " ", "9", "0",
                 "%">>
OtherLine == <<NL, "C", "o", "n", "f", "i", "d", "e", "n", "c", "e", ":", " ", "n", "/", "a">>
DocConfidenceLines ==
    {<<>>, HighLine, MediumLine, LowLine, PercentLine, OtherLine}

\* A block for the specification Wt, and a block for Len alone.
WtBlockOf(v, c) == Wt \o v \o c
LenOnly == <<"L", "e", "n", NL, "V", "a", "l", "u", "e", ":", " ", "7", "c", "m">>

DocBlocks == {WtBlockOf(v, c) : v \in DocValueLines, c \in DocConfidenceLines} \cup {LenOnly}

\* A reply section headed by the k-th part number.
PartSection(k, block) == PartNumber(k) \o <<NL>> \o block

\* Replies for the first part number only, with or without its header, and
\* replies with a section for each of the first two part numbers.
DocTexts ==
    {<<>>} \cup DocBlocks \cup {PartSection(1, b) : b \in DocBlocks}
        \cup {PartSection(1, b1) \o <<NL, NL, NL>> \o PartSection(2, b2) :
                  b1 \in DocBlocks, b2 \in {WtBlockOf(FoundValue, HighLine), LenOnly}}

PdfReplies ==
    {Timeout, ConnectionError, Status500, NotJson,
     Ok200(NoChoices), Ok200(EmptyChoices), Ok200(NoMessage), Ok200(NoContent),
     Ok200(WithContent(None)), Ok200(WithContent(IntVal(42)))}
        \cup {Ok200(WithContent(Str(text))) : text \in DocTexts}

InitPdf ==
    /\ pc = "pdf"
    /\ part_numbers \in PartNumberLists
    /\ specifications \in SpecificationLists
    /\ pdf_reply \in PdfReplies
    /\ pdf_result = None
    /\ idx = 0
    /\ tasks = <<>>
    /\ all_results = <<>>
    /\ surviving = <<>>
    /\ response = None
    /\ issued = 0
    /\ in_flight = 0
    /\ completed = <<>>
    /\ IdleAggregator
    /\ IdleParser
    /\ request = None
    /\ http_response = None
    /\ core_calls = <<>>

\* The call from the request to its return.
ProcessPdf ==
    /\ pc = "pdf"
    /\ pdf_result' = process_pdf_for_specifications(pdf_reply, part_numbers, specifications)
    /\ pc' = "pdf_returned"
    /\ UNCHANGED <<spec_results, confidence_result, part_numbers, specifications, idx,
                   tasks, all_results, surviving, response, issued, in_flight, completed,
                   pdf_reply>>
    /\ UNCHANGED <<parser_text, parser_fields, request, http_response, core_calls>>

NextPdf == ProcessPdf

SpecPdf == InitPdf /\ [][NextPdf]_vars

-----------------------------------------------------------------------------
(* app.py: the routes /get_specs and /process_pdf *)

\* A Python list, and the marker of a key that a dict or a form does not hold.
List(items) == [type |-> "list", items |-> items]
Dict(items) == [type |-> "dict", items |-> items]
Absent == [type |-> "absent"]

\* bool(v) for None, a str and a list.
Truthy(v) ==
    IF v.type = "str" THEN v.chars # <<>>
    ELSE IF v.type = "list" THEN v.items # <<>>
    ELSE FALSE

\* The mapping that holds the given fields, without those that are Absent.
Fields(supplier, parts, specs) ==
    LET given == [supplier |-> supplier, part_numbers |-> parts, specifications |-> specs]
    IN [key \in {k \in DOMAIN given : given[k] # Absent} |-> given[key]]

\* mapping.get(key, default)
GetOr(mapping, key, default) == IF key \in DOMAIN mapping THEN mapping[key] ELSE default

Acme == <<"A", "c", "m", "e">>
PdfSuffix == <<".", "p", "d", "f">>

\* str.endswith
EndsWith(s, p) ==
    /\ Len(p) <= Len(s)
    /\ \A k \in 1..Len(p) : s[Len(s) - Len(p) + k] = p[k]

\* What request.get_json() gives: it raises on a body that is not JSON, else
\* the decoded body: null, a list, or an object with some of the fields.
JsonBodies ==
    {[raises |-> "BadRequest"], [value |-> None], [value |-> List(<<>>)]}
        \cup {[value |-> Dict(Fields(s, p, q))] :
                  s \in {Absent, None, Str(<<>>), Str(Acme)},
                  p \in {Absent, None, List(<<>>), List(<<PartNumber(1)>>)},
                  q \in {Absent, None, List(<<>>), List(<<Wt>>)}}

\* The texts of the form fields part_numbers and specifications.
EmptyListText == <<"[", "]">>
ListText(item) == <<"[", "\"">> \o item \o <<"\"", "]">>

\* json.loads on the form texts: "[]", a list of one string, or a text that
\* is not JSON (the empty text).
JsonLoads(text) ==
    IF text = EmptyListText THEN [value |-> List(<<>>)]
    ELSE IF /\ Len(text) > 4
            /\ StartsWith(text, <<"[", "\"">>)
            /\ EndsWith(text, <<"\"", "]">>)
    THEN [value |-> List(<<SubSeq(text, 3, Len(text) - 2)>>)]
    ELSE [raises |-> ExpectingValue]

\* The uploads of a request and its form.
Uploads ==
    {[name \in {} |-> <<>>]}
        \cup {[pdf_file |-> [filename |-> f]] :
                  f \in {<<>>, <<"a", ".", "t", "x", "t">>, <<"a", ".", "p", "d", "f">>}}

Forms ==
    {Fields(s, p, q) :
        s \in {Absent, Str(<<>>), Str(Acme)},
        p \in {Absent, Str(<<>>), Str(EmptyListText), Str(ListText(PartNumber(1)))},
        q \in {Absent, Str(<<>>), Str(EmptyListText), Str(ListText(Wt))}}

Requests ==
    {[route |-> "/get_specs", json |-> body] : body \in JsonBodies}
        \cup {[route |-> "/process_pdf", files |-> u, form |-> f] :
                  u \in Uploads, f \in Forms}

\* What the core functions hand back to the routes.
SearchReturns ==
    {[error |-> NoValidResults],
     [results |-> <<PartResult(PartNumber(1), <<Str(AnswerA)>>, <<Wt>>)>>]}
PdfReturns ==
    {None, [error |-> ApiRequestFailed],
     [results |-> process_gpt_response(WtBlockOf(FoundValue, HighLine),
                                       <<PartNumber(1)>>, <<Wt>>)]}

\* str(e) of the AttributeError that data.get raises on a body that is no dict.
NoGetAttribute(data) ==
    IF data.type = "NoneType" THEN "'NoneType' object has no attribute 'get'"
    ELSE "'list' object has no attribute 'get'"
MissingRequiredFields ==
    <<"M", "i", "s", "s", "i", "n", "g", " ", "r", "e", "q", "u", "i", "r", "e", "d", " ",
      "f", "i", "e", "l", "d", "s", ":", " ">>

\* jsonify(body), status
Reply(status_code, body) == [status_code |-> status_code, json |-> body]

\* The names of the fields that are falsy, in the order they are tested.
MissingFields(supplier, parts, specs) ==
    (IF ~Truthy(supplier) THEN <<<<"s", "u", "p", "p", "l", "i", "e", "r">>>> ELSE <<>>)
        \o (IF ~Truthy(parts) THEN <<<<"p", "a", "r", "t", "_", "n", "u", "m", "b", "e", "r", "s">>>> ELSE <<>>)
        \o (IF ~Truthy(specs) THEN <<<<"s", "p", "e", "c", "i", "f", "i", "c", "a", "t", "i", "o", "n", "s">>>> ELSE <<>>)

\* The 400 reply of `if not all([supplier, part_numbers, specifications])`.
MissingReply(supplier, parts, specs) ==
    Reply(400, [error |-> MissingRequiredFields
                              \o Join(<<",", " ">>, MissingFields(supplier, parts, specs))])

\* The record of a call of a core function.
CoreCall(function, supplier, parts, specs) ==
    [function |-> function, supplier |-> supplier,
     part_numbers |-> parts, specifications |-> specs]

InitWeb ==
    /\ pc = "route"
    /\ request \in Requests
    /\ http_response = None
    /\ core_calls = <<>>
    /\ IdleSearch
    /\ IdleAggregator
    /\ IdleParser
    /\ pdf_reply = None
    /\ pdf_result = None

\* The route /get_specs, from the request to its reply.
get_specs ==
    /\ pc = "route"
    /\ request.route = "/get_specs"
    /\ IF "raises" \in DOMAIN request.json
       THEN /\ http_response' = Reply(400, [error |-> "Invalid JSON data"])
            /\ UNCHANGED core_calls
       ELSE LET data == request.json.value
            IN IF data.type # "dict"
               THEN /\ http_response' = Reply(500, [error |-> NoGetAttribute(data)])
                    /\ UNCHANGED core_calls
               ELSE LET supplier == GetOr(data.items, "supplier", Str(<<>>))
                        parts == GetOr(data.items, "part_numbers", List(<<>>))
                        specs == GetOr(data.items, "specifications", List(<<>>))
                    IN IF ~(Truthy(supplier) /\ Truthy(parts) /\ Truthy(specs))
                       THEN /\ http_response' = MissingReply(supplier, parts, specs)
                            /\ UNCHANGED core_calls
                       ELSE /\ core_calls' =
                                   Append(core_calls,
                                          CoreCall("search_specification",
                                                   supplier, parts, specs))
                            /\ \E result \in SearchReturns :
                                   http_response' = Reply(200, result)
    /\ pc' = "replied"
    /\ UNCHANGED <<spec_results, confidence_result, part_numbers, specifications, idx,
                   tasks, all_results, surviving, response, issued, in_flight, completed,
                   request>>
    /\ UNCHANGED <<parser_text, parser_fields, pdf_reply, pdf_result>>

\* The route /process_pdf, from the request to its reply.
process_pdf ==
    /\ pc = "route"
    /\ request.route = "/process_pdf"
    /\ IF "pdf_file" \notin DOMAIN request.files
       THEN /\ http_response' = Reply(400, [error |-> "No PDF file provided"])
            /\ UNCHANGED core_calls
       ELSE IF request.files.pdf_file.filename = <<>>
       THEN /\ http_response' = Reply(400, [error |-> "No PDF file selected"])
            /\ UNCHANGED core_calls
       ELSE IF ~EndsWith(request.files.pdf_file.filename, PdfSuffix)
       THEN /\ http_response' = Reply(400, [error |-> "File must be a PDF"])
            /\ UNCHANGED core_calls
       ELSE LET supplier == GetOr(request.form, "supplier", Str(<<>>))
                parts == JsonLoads(GetOr(request.form, "part_numbers",
                                         Str(EmptyListText)).chars)
                specs == JsonLoads(GetOr(request.form, "specifications",
                                         Str(EmptyListText)).chars)
            IN IF "raises" \in DOMAIN parts
               THEN /\ http_response' = Reply(500, [error |-> parts.raises])
                    /\ UNCHANGED core_calls
               ELSE IF "raises" \in DOMAIN specs
               THEN /\ http_response' = Reply(500, [error |-> specs.raises])
                    /\ UNCHANGED core_calls
               ELSE IF ~(Truthy(supplier) /\ Truthy(parts.value) /\ Truthy(specs.value))
               THEN /\ http_response' = MissingReply(supplier, parts.value, specs.value)
                    /\ UNCHANGED core_calls
               ELSE /\ core_calls' =
                           Append(core_calls,
                                  CoreCall("process_pdf_for_specifications",
                                           supplier, parts.value, specs.value))
                    /\ \E result \in PdfReturns : http_response' = Reply(200, result)
    /\ pc' = "replied"
    /\ UNCHANGED <<spec_results, confidence_result, part_numbers, specifications, idx,
                   tasks, all_results, surviving, response, issued, in_flight, completed,
                   request>>
    /\ UNCHANGED <<parser_text, parser_fields, pdf_reply, pdf_result>>

NextWeb == get_specs \/ process_pdf

SpecWeb == InitWeb /\ [][NextWeb]_vars

-----------------------------------------------------------------------------
(* The await of asyncio.gather for one part number, with the order in which the
   3 coroutines return recorded in completed *)

\* Wt 4kg, no source.
AnswerC == <<"W", "t", NL, "V", "a", "l", "u", "e", ":", " ", "4", "k", "g">>

\* One part number; the request may name a specification twice.
InitGather ==
    /\ pc = "for"
    /\ part_numbers = <<PartNumber(1)>>
    /\ specifications \in SpecificationLists \cup {<<Wt, Wt>>}
    /\ idx = 1
    /\ tasks = <<>>
    /\ all_results = <<>>
    /\ surviving = <<>>
    /\ response = None
    /\ issued = 0
    /\ in_flight = 0
    /\ completed = <<>>
    /\ IdleAggregator
    /\ IdleParser
    /\ IdlePdfAndWeb

\* One coroutine runs to its return while gather is awaited: the event loop
\* resumes the 3 coroutines in any order, each with any reply of the upstream.
SlotReturns(k) ==
    /\ pc = "gather"
    /\ tasks[k] = Pending
    /\ \E reply \in Replies \cup {Ok200(WithContent(Str(AnswerC)))} :
           tasks' = [tasks EXCEPT ![k] = Done(get_specification_async(reply))]
    /\ in_flight' = in_flight - 1
    /\ completed' = Append(completed, k)
    /\ UNCHANGED <<pc, spec_results, confidence_result, part_numbers, specifications,
                   idx, all_results, surviving, response, issued>>
    /\ UNCHANGED entry_vars

NextGather ==
    \/ NextPart
    \/ \E k \in 1..Slots : SlotReturns(k)
    \/ Gathered
    \/ Return

SpecGather == InitGather /\ [][NextGather]_vars

-----------------------------------------------------------------------------
(* Specifications *)

NextAgg == Aggregate

SpecAgg == InitAgg /\ [][NextAgg]_vars

Init == InitAgg \/ InitSearch

Next ==
    \/ Aggregate
    \/ NextPart
    \/ \E k \in 1..Slots : SlotDone(k)
    \/ Gathered
    \/ Return

Spec == Init /\ [][Next]_vars

\* The event loop resumes search_specification once the gather it awaits is
\* complete: the call leaves the await. Under [Next]_vars the steps that do so
\* are those of Gathered.
GatherResumes ==
    /\ pc = "gather"
    /\ \A k \in 1..Slots : tasks[k] # Pending
    /\ pc' \in {"for", "done"}

\* Spec with the scheduling the code relies on: every upstream call returns or
\* hits the timeout of requests.post, so each pending coroutine eventually
\* returns; and the event loop runs search_specification whenever it is not
\* awaiting a pending coroutine.
LiveSpec ==
    /\ Spec
    /\ \A k \in 1..Slots : WF_vars(SlotDone(k))
    /\ WF_vars(NextPart)
    /\ WF_pc(GatherResumes)
    /\ WF_vars(Return)

-----------------------------------------------------------------------------
(* Properties of calculate_confidence *)

\* How many fields carry exactly the value v.
CountOf(fields, v) == Cardinality({k \in 1..Len(fields) : fields[k].value = v})

\* Position of the first field carrying the value v.
FirstIndexOf(fields, v) ==
    CHOOSE k \in 1..Len(fields) :
        /\ fields[k].value = v
        /\ \A m \in 1..(k - 1) : fields[m].value # v

G500 == <<"5", "0", "0", "g">>
G450 == <<"4", "5", "0", "g">>

\* C1: for a non-empty field list the returned value is one of the field
\* values, no other value occurs more often (values compared by exact
\* equality), confidence is its count over the number of fields, and a value
\* held by a strict majority of the fields is the one returned.
C1_MajorityLaw ==
    (pc = "aggregated" /\ spec_results # <<>>) =>
        LET n == Len(spec_results)
            won == CountOf(spec_results, confidence_result.value)
        IN /\ won >= 1
           /\ \A k \in 1..n : CountOf(spec_results, spec_results[k].value) <= won
           /\ confidence_result.confidence.num * n
                  = won * confidence_result.confidence.den
           /\ \A k \in 1..n :
                  2 * CountOf(spec_results, spec_results[k].value) > n
                      => confidence_result.value = spec_results[k].value

\* [500g, 500g, 450g] has been aggregated to 500g with confidence 2/3.
C1_Witness ==
    /\ pc = "aggregated"
    /\ [k \in 1..Len(spec_results) |-> spec_results[k].value] = <<G500, G500, G450>>
    /\ confidence_result.value = G500
    /\ confidence_result.confidence = [num |-> 2, den |-> 3]

\* C2: among the values that share the maximal count, the returned value is
\* the one whose first occurrence in the input comes first.
C2_FirstEncounteredWinsTie ==
    (pc = "aggregated" /\ spec_results # <<>>) =>
        \A k \in 1..Len(spec_results) :
            CountOf(spec_results, spec_results[k].value)
                    = CountOf(spec_results, confidence_result.value)
                => FirstIndexOf(spec_results, confidence_result.value) <= k

\* A 1-1-1 tie whose first value is not the alphabetically smallest has been
\* aggregated to its first value.
C2_Witness ==
    /\ pc = "aggregated"
    /\ Len(spec_results) = 3
    /\ spec_results[1].value = G500
    /\ spec_results[3].value = G450
    /\ spec_results[2].value \notin {G500, G450}
    /\ confidence_result.value = G500

\* C3: validation_status is green exactly when every field carries the
\* returned value, yellow exactly when its share is at least 0.66 and below 1,
\* red for every other non-empty input, and grey exactly for the empty input.
C3_StatusThresholds ==
    (pc = "aggregated") =>
        LET n == Len(spec_results)
            won == CountOf(spec_results, confidence_result.value)
            status == confidence_result.validation_status
        IN /\ status \in {"green", "yellow", "red", "grey"}
           /\ (status = "grey") <=> (n = 0)
           /\ n > 0 => /\ (status = "green") <=> (won = n)
                       /\ (status = "yellow") <=> (100 * won >= 66 * n /\ won < n)
                       /\ (status = "red") <=> (100 * won < 66 * n)

\* Two matching fields out of three have been aggregated to yellow.
C3_Witness ==
    /\ pc = "aggregated"
    /\ Len(spec_results) = 3
    /\ CountOf(spec_results, confidence_result.value) = 2
    /\ confidence_result.validation_status = "yellow"

-----------------------------------------------------------------------------
(* Properties of search_specification *)

\* The part numbers of a results list, in order.
ResultParts(results) == [k \in 1..Len(results) |-> results[k].part_number]

\* The part numbers gathered so far of which at least one slot returned a
\* str, in request order.
SurvivingParts ==
    LET kept == SelectSeq([i \in 1..Len(surviving) |-> i], LAMBDA i : surviving[i] > 0)
    IN [k \in 1..Len(kept) |-> part_numbers[kept[k]]]

\* The 3 slots of the part number gathered last have returned and the loop
\* body went on without raising.
LastPartAssembled ==
    /\ tasks # <<>>
    /\ pc = "for" \/ (pc = "done" /\ "results" \in DOMAIN response)
    /\ surviving[Len(surviving)] > 0

\* No slot of the part number gathered last returned an answer from which the
\* parser takes a field for spec.
NoFieldFor(spec) ==
    \A k \in 1..Slots :
        tasks[k].result.type = "str"
            => Get(process_response(tasks[k].result.chars, specifications), spec) = <<>>

\* The empty-input verdict appears wherever no field exists: as the return of
\* calculate_confidence([]) and as the verdict of every specification of an
\* assembled PartResult for which no surviving answer gave a field.
SentinelWhereNoField(sentinel) ==
    /\ (pc = "aggregated" /\ spec_results = <<>>) => confidence_result = sentinel
    /\ LastPartAssembled =>
           \A j \in 1..Len(specifications) :
               NoFieldFor(specifications[j]) =>
                   all_results[Len(all_results)].specifications[j]
                       = [name |-> specifications[j]] @@ sentinel

\* C4 as stated: the sentinel is value "-", confidence 0.0, grey, source with
\* url, title and confidence_notes all empty, reasoning "No results found".
C4_SentinelSourceAllEmpty ==
    SentinelWhereNoField(
        [value |-> <<"-">>,
         confidence |-> [num |-> 0, den |-> 1],
         validation_status |-> "grey",
         source |-> [url |-> <<>>, title |-> "", confidence_notes |-> <<>>],
         reasoning |-> NoResultsFound])

\* C4: calculate_confidence([]) returns value "-", confidence 0.0, grey,
\* source url and title empty, source confidence_notes "No results found" and
\* reasoning "No results found"; every specification of a search result for
\* which no surviving answer gave a field carries exactly this verdict.
C4_EmptyInputFloor ==
    SentinelWhereNoField(
        [value |-> <<"-">>,
         confidence |-> [num |-> 0, den |-> 1],
         validation_status |-> "grey",
         source |-> [url |-> <<>>, title |-> "", confidence_notes |-> NoResultsFound],
         reasoning |-> NoResultsFound])

\* A PartResult has been assembled from surviving answers none of which gave a
\* field for one of the specifications, and that verdict is grey with "-".
C4_Witness ==
    /\ LastPartAssembled
    /\ \E j \in 1..Len(specifications) :
           /\ NoFieldFor(specifications[j])
           /\ all_results[Len(all_results)].specifications[j].value = <<"-">>
           /\ all_results[Len(all_results)].specifications[j].validation_status = "grey"

\* C5: a slot that fails (raises, non-200, or a 200 body without a str at
\* choices[0].message.content) is no answer for that slot only: the search is
\* an {error} only when no slot of any part number returned a str, and a
\* {results} response holds every part number that kept an answering slot.
C5_SlotFailureIsLocal ==
    pc = "done" =>
        /\ "error" \in DOMAIN response
               => \A i \in 1..Len(surviving) : surviving[i] = 0
        /\ "results" \in DOMAIN response
               => ResultParts(response.results) = SurvivingParts

\* C6: when some part number had no answering slot and another had one, the
\* search returns {results} without the former and with a PartResult for
\* every part number that had an answering slot.
C6_FailedPartOmittedNotFatal ==
    (/\ pc = "done"
     /\ \E i \in 1..Len(surviving) : surviving[i] = 0
     /\ \E i \in 1..Len(surviving) : surviving[i] > 0)
        => /\ DOMAIN response = {"results"}
           /\ Len(response.results)
                  = Cardinality({i \in 1..Len(surviving) : surviving[i] > 0})
           /\ \A i \in 1..Len(surviving) :
                  (surviving[i] > 0) <=>
                      (\E k \in 1..Len(response.results) :
                           response.results[k].part_number = part_numbers[i])

\* C7: when every part number ended with no answering slot the search returns
\* exactly {error: "No valid results obtained for any part numbers"}, and a
\* returned results list is never empty.
C7_TotalFailure ==
    pc = "done" =>
        /\ (/\ Len(surviving) = Len(part_numbers)
            /\ \A i \in 1..Len(surviving) : surviving[i] = 0)
               => response = [error |-> NoValidResults]
        /\ "results" \in DOMAIN response => response.results # <<>>

\* C8: what search_specification returns has exactly one of the keys results
\* and error, also when the request is aborted after PartResults were built;
\* nothing is returned before the call is done.
C8_ResultsXorError ==
    /\ pc = "done" => (DOMAIN response = {"results"} \/ DOMAIN response = {"error"})
    /\ pc \in {"for", "gather"} => response = None

\* The request was aborted with an error after a PartResult had been built.
C8_Witness ==
    /\ pc = "done"
    /\ all_results # <<>>
    /\ "error" \in DOMAIN response

\* a is b with some elements left out, order kept.
RECURSIVE IsSubsequence(_, _)
IsSubsequence(a, b) ==
    IF a = <<>> THEN TRUE
    ELSE IF b = <<>> THEN FALSE
    ELSE IF a[1] = b[1] THEN IsSubsequence(Tail(a), Tail(b))
    ELSE IsSubsequence(a, Tail(b))

\* C9: in a {results} response the part numbers are a subsequence of the
\* request's part_numbers made of the part numbers that kept an answering
\* slot, and the names of every PartResult's verdicts are the request's
\* specifications in order.
C9_RequestOrderPreserved ==
    "results" \in DOMAIN response =>
        /\ IsSubsequence(ResultParts(response.results), part_numbers)
        /\ \A i \in 1..Len(part_numbers) :
               (\E k \in 1..Len(response.results) :
                    response.results[k].part_number = part_numbers[i])
                   <=> (i <= Len(surviving) /\ surviving[i] > 0)
        /\ \A k \in 1..Len(response.results) :
               [j \in 1..Len(response.results[k].specifications) |->
                    response.results[k].specifications[j].name] = specifications

\* A {results} response for a two-specification request whose first part
\* number was skipped and whose second survived on fewer than 3 slots.
C9_Witness ==
    /\ "results" \in DOMAIN response
    /\ Len(part_numbers) = 2
    /\ Len(specifications) = 2
    /\ surviving[1] = 0
    /\ surviving[2] \in {1, 2}
    /\ ResultParts(response.results) = <<part_numbers[2]>>

\* C10: when exactly one slot of a part number returned an answer and that
\* answer holds a block for a specification with a value other than "-", a
\* PartResult is built for the part number whose verdict for the
\* specification has that value, confidence 1.0 and status green, and it is
\* in the response when the call returns.
C10_SingleSlotResilience ==
    (/\ pc \in {"for", "done"}
     /\ tasks # <<>>
     /\ surviving[Len(surviving)] = 1)
        => LET k == CHOOSE m \in 1..Slots : tasks[m].result.type = "str"
               answer == tasks[k].result.chars
           IN \A j \in 1..Len(specifications) :
                  LET fields == Get(process_response(answer, <<specifications[j]>>),
                                    specifications[j])
                  IN fields # <<>> =>
                         /\ all_results # <<>>
                         /\ LET built == all_results[Len(all_results)]
                            IN /\ built.part_number = part_numbers[Len(surviving)]
                               /\ built.specifications[j].value = fields[1].value
                               /\ built.specifications[j].confidence = [num |-> 1, den |-> 1]
                               /\ built.specifications[j].validation_status = "green"
                               /\ pc = "done" =>
                                      /\ "results" \in DOMAIN response
                                      /\ response.results[Len(response.results)] = built

-----------------------------------------------------------------------------
(* C11 *)

\* The lines of a section that the parser reads as Value lines.
ValueLinesOf(section) ==
    SelectSeq(Split(section, <<NL>>),
              LAMBDA rawline : StartsWith(Lower(Strip(rawline)), ValuePrefix))

\* The section has no Value line, or every Value line of it says "-".
SaysNotFound(section) ==
    \A k \in 1..Len(ValueLinesOf(section)) :
        Strip(AfterFirst(Strip(ValueLinesOf(section)[k]), <<":">>)) = <<"-">>

\* C11: process_response never emits a field whose value is "-": a matched
\* section whose Value line is "-", or that has no Value line, contributes no
\* field, so a verdict built from the parser's fields has the value "-" only
\* when it is the empty-input sentinel.
C11_DashIsNeverAField ==
    pc = "parsed" =>
        /\ \A spec \in DOMAIN parser_fields :
               \A k \in 1..Len(parser_fields[spec]) :
                   parser_fields[spec][k].value # <<"-">>
        /\ \A j \in 1..Len(specifications) :
               LET m == MatchingSection(Sections(parser_text), specifications[j])
               IN (m # 0 /\ SaysNotFound(Sections(parser_text)[m]))
                      => Get(parser_fields, specifications[j]) = <<>>
        /\ \A j \in 1..Len(specifications) :
               LET verdict == calculate_confidence(Get(parser_fields, specifications[j]))
               IN verdict.value = <<"-">> => verdict = EmptyResult

\* An answer whose Wt section says "Value: -" and whose Len section has a
\* value: Wt was matched and has no field, Len has one.
C11_Witness ==
    /\ pc = "parsed"
    /\ specifications = <<Ln, Wt>>
    /\ Contains(parser_text, <<"W", "t", NL, "V", "a", "l", "u", "e", ":", " ", "-", NL>>)
    /\ Wt \in DOMAIN parser_fields
    /\ parser_fields[Wt] = <<>>
    /\ Len(parser_fields[Ln]) = 1

-----------------------------------------------------------------------------
(* C12 *)

\* What the Wt block of each answer text says: value, source, reasoning.
WtBlock(a) ==
    IF a = AnswerA
    THEN [value |-> <<"2", "k", "g">>, source |-> <<"a", ".", "c", "o", "m">>,
          reasoning |-> <<"s", "h", "e", "e", "t">>]
    ELSE [value |-> <<"3", "k", "g">>, source |-> <<"b", ".", "c", "o", "m">>,
          reasoning |-> <<"f", "o", "r", "u", "m">>]

AllOfThree ==
    <<"1", "0", "0", "%", " ", "c", "o", "n", "f", "i", "d", "e", "n", "c", "e", " ", "b",
      "a", "s", "e", "d", " ", "o", "n", " ", "3", "/", "3", " ", "m", "a", "t", "c", "h",
      "i", "n", "g", " ", "r", "e", "s", "u", "l", "t", "s">>

\* A request for one part number and the specification Wt whose three slots
\* all returned the answer text a, after the loop body has run.
ThreeIdenticalAnswers(a) ==
    /\ pc \in {"for", "done"}
    /\ Len(part_numbers) = 1
    /\ specifications = <<Wt>>
    /\ Len(all_results) = 1
    /\ \A k \in 1..Slots : tasks[k] = Done(Str(a))

\* The verdict the scenario expects, with the given source title.
UnanimousVerdict(a, title) ==
    [name |-> Wt,
     value |-> WtBlock(a).value,
     confidence |-> One,
     validation_status |-> "green",
     source |-> [url |-> WtBlock(a).source, title |-> title,
                 confidence_notes |-> AllOfThree],
     reasoning |-> WtBlock(a).reasoning \o <<" ", "|", " ">> \o WtBlock(a).reasoning
                       \o <<" ", "|", " ">> \o WtBlock(a).reasoning]

\* C12 as stated: three identical answers with value V, source S and reasoning
\* R give the single verdict value V, confidence 1.0, green, source.url S,
\* source.title "Source", notes "100% confidence based on 3/3 matching results"
\* and reasoning "R | R | R".
C12_UnanimousTitledSource ==
    \A a \in Answers :
        ThreeIdenticalAnswers(a) =>
            all_results[1].specifications = <<UnanimousVerdict(a, "Source")>>

\* C12 amended: the same verdict, with source.title "Multiple Sources" because
\* the winning group holds the three sources of the three answers.
C12_UnanimousTitledMultiple ==
    \A a \in Answers :
        ThreeIdenticalAnswers(a) =>
            all_results[1].specifications = <<UnanimousVerdict(a, "Multiple Sources")>>

C12_Witness ==
    /\ ThreeIdenticalAnswers(AnswerA)
    /\ all_results[1].specifications[1].confidence = One

-----------------------------------------------------------------------------
(* C13 *)

\* "<p>% confidence based on <c>/<n> matching results"
NotesText(p, c, n) ==
    IntToStr(p)
        \o <<"%", " ", "c", "o", "n", "f", "i", "d", "e", "n", "c", "e", " ", "b", "a", "s",
          "e", "d", " ", "o", "n", " ">>
        \o IntToStr(c) \o <<"/">> \o IntToStr(n)
        \o <<" ", "m", "a", "t", "c", "h", "i", "n", "g", " ", "r", "e", "s", "u", "l", "t",
          "s">>

\* How many of the aggregated fields carry the verdict's value.
WinningCount == CountOf(spec_results, confidence_result.value)

\* C13 as stated: for a non-empty field list the notes are
\* "<p>% confidence based on <c>/<n> matching results" with c the winning
\* count, n the number of fields and p = 100*c/n rounded to the nearest
\* integer (2 of 3 gives 67).
C13_NotesRounded ==
    (pc = "aggregated" /\ spec_results # <<>>) =>
        confidence_result.source.confidence_notes =
            NotesText((200 * WinningCount + Len(spec_results)) \div (2 * Len(spec_results)),
                      WinningCount, Len(spec_results))

\* C13 amended: the same text with p = 100*c/n truncated to an integer
\* (2 of 3 gives 66).
C13_NotesTruncated ==
    (pc = "aggregated" /\ spec_results # <<>>) =>
        confidence_result.source.confidence_notes =
            NotesText((100 * WinningCount) \div Len(spec_results),
                      WinningCount, Len(spec_results))

\* Two of three fields agree: the notes begin with 66.
C13_Witness ==
    /\ pc = "aggregated"
    /\ Len(spec_results) = 3
    /\ WinningCount = 2
    /\ StartsWith(confidence_result.source.confidence_notes, <<"6", "6", "%">>)

-----------------------------------------------------------------------------
(* C14 *)

SomeSlotPending == pc = "gather" /\ \E k \in 1..Slots : tasks[k] = Pending

\* C14: while any of the 3 slots of the current part number is unresolved,
\* a step only resolves one slot: the call stays in the gather, nothing is
\* parsed, aggregated or returned, and every slot already resolved, failed
\* or not, keeps its result while the others remain to be resolved.
C14_GatherWaitsForAllSlots ==
    [][SomeSlotPending =>
          /\ pc' = "gather"
          /\ UNCHANGED <<all_results, response, idx, surviving>>
          /\ \A k \in 1..Slots : tasks[k] # Pending => tasks'[k] = tasks[k]
          /\ \A k \in 1..Slots : tasks'[k] = Pending => tasks[k] = Pending]_vars

\* One slot has failed, one has answered and one is still unresolved; nothing
\* has been assembled for the part number yet.
C14_Witness ==
    /\ pc = "gather"
    /\ \E k \in 1..Slots : tasks[k] = Done(None)
    /\ \E k \in 1..Slots : tasks[k] = Done(Str(AnswerA))
    /\ \E k \in 1..Slots : tasks[k] = Pending
    /\ Len(all_results) = idx - 1

-----------------------------------------------------------------------------
(* C15 *)

\* The part numbers whose loop body has been entered.
PartsStarted == Len(surviving) + (IF pc = "gather" THEN 1 ELSE 0)

\* C15: exactly 3 upstream queries are posted for every part number the loop
\* processes, whatever the slots return, so a request over k part numbers
\* that has gone through all of them has posted exactly 3*k queries.
C15_ThreeQueriesPerPart ==
    pc \in {"for", "gather", "done"} =>
        /\ issued = 3 * PartsStarted
        /\ (pc = "done" /\ Len(surviving) = Len(part_numbers))
               => issued = 3 * Len(part_numbers)

\* A finished request over two part numbers in which a slot failed: 6 queries.
C15_Witness ==
    /\ pc = "done"
    /\ Len(part_numbers) = 2
    /\ Len(surviving) = 2
    /\ \E k \in 1..Slots : tasks[k] = Done(None)
    /\ issued = 6

-----------------------------------------------------------------------------
(* C16 *)

PendingSlots == {k \in DOMAIN tasks : tasks[k] = Pending}

\* C16: part numbers are processed one after the other: the queries in
\* flight are the unresolved slots of the current part number, at most 3 of
\* them, and none is in flight when the loop moves on to the next part number
\* or returns.
C16_AtMostThreeInFlight ==
    pc \in {"for", "gather", "done"} =>
        /\ in_flight <= 3
        /\ in_flight = Cardinality(PendingSlots)
        /\ pc # "gather" => in_flight = 0
        /\ issued <= 3 * (Len(surviving) + 1)

\* The three queries of the second part number are in flight, those of the
\* first have all been answered.
C16_Witness ==
    /\ pc = "gather"
    /\ idx = 2
    /\ Len(surviving) = 1
    /\ in_flight = 3
    /\ issued = 6

-----------------------------------------------------------------------------
(* C17 *)

\* The document call has returned results for a single part number from the
\* reply text T.
SinglePartReply(T) ==
    /\ pc = "pdf_returned"
    /\ Len(part_numbers) = 1
    /\ pdf_reply = Ok200(WithContent(Str(T)))
    /\ "results" \in DOMAIN pdf_result

\* The verdict of the live pipeline for spec on T taken as a single answer.
LiveVerdict(T, spec) ==
    calculate_confidence(Get(process_response(T, specifications), spec))

SaidValue(v) == IF v = FoundValue THEN <<"2", "k", "g">> ELSE <<"-">>

SaidConfidence(c) ==
    IF c = HighLine THEN [confidence |-> One, validation_status |-> "green"]
    ELSE IF c = MediumLine
    THEN [confidence |-> [num |-> 7, den |-> 10], validation_status |-> "yellow"]
    ELSE IF c = PercentLine
    THEN [confidence |-> [num |-> 9, den |-> 10], validation_status |-> "green"]
    ELSE IF c = OtherLine THEN [confidence |-> Zero, validation_status |-> "grey"]
    ELSE [confidence |-> [num |-> 3, den |-> 10], validation_status |-> "red"]

\* No line of T names the specification.
NamedNowhere(T, spec) ==
    \A k \in 1..Len(Split(T, <<NL>>)) : ~Contains(Lower(Split(T, <<NL>>)[k]), Lower(spec))

-----------------------------------------------------------------------------
(* C18 *)

\* The reply text of a document call that returned results.
ReplyText == pdf_reply.json.choices[1].message.content.chars

\* The part number occurs in no section of the reply split on "\n\n\n".
InNoSection(part_number) ==
    \A k \in 1..Len(Split(ReplyText, <<NL, NL, NL>>)) :
        ~Contains(Split(ReplyText, <<NL, NL, NL>>)[k], part_number)

\* C18: when more than one part number is requested, a part number that
\* occurs in no triple-newline section of the reply has no PartResult in the
\* results.
C18_UnmentionedPartOmitted ==
    (/\ pc = "pdf_returned"
     /\ "results" \in DOMAIN pdf_result
     /\ Len(part_numbers) > 1) =>
        \A k \in 1..Len(part_numbers) :
            InNoSection(part_numbers[k]) =>
                \A r \in 1..Len(pdf_result.results) :
                    pdf_result.results[r].part_number # part_numbers[k]

-----------------------------------------------------------------------------
(* C19 *)

\* C19: whatever the upstream does, the document call returns a dict that
\* has either the key results or the key error, and nothing else.
C19_PdfResultsXorError ==
    pc = "pdf_returned" => DOMAIN pdf_result \in {{"results"}, {"error"}}

-----------------------------------------------------------------------------
(* C20 *)

RequiredFields == {"supplier", "part_numbers", "specifications"}

\* The request supplies the field with something in it: a non-empty string
\* or list in the JSON object, a form text other than "" and "[]".
Supplied(key) ==
    IF request.route = "/get_specs"
    THEN /\ "value" \in DOMAIN request.json
         /\ request.json.value.type = "dict"
         /\ key \in DOMAIN request.json.value.items
         /\ request.json.value.items[key] \notin {None, Str(<<>>), List(<<>>)}
    ELSE /\ key \in DOMAIN request.form
         /\ request.form[key].chars \notin {<<>>, EmptyListText}

MissingOrEmptyField == \E key \in RequiredFields : ~Supplied(key)

\* /process_pdf without a file, with an empty filename or with a filename
\* that does not end in .pdf.
BadUpload ==
    /\ request.route = "/process_pdf"
    /\ \/ "pdf_file" \notin DOMAIN request.files
       \/ request.files.pdf_file.filename = <<>>
       \/ ~EndsWith(request.files.pdf_file.filename, PdfSuffix)

\* Neither core function is called for a request with a missing or empty
\* field or a bad upload.
CoreNotCalledOnBadRequest ==
    (pc = "replied" /\ (MissingOrEmptyField \/ BadUpload)) => core_calls = <<>>

\* Such a request is answered with a 400-class status, a bad upload with 400.
BadRequestAnswered400 ==
    pc = "replied" =>
        /\ MissingOrEmptyField => http_response.status_code \in 400..499
        /\ BadUpload => http_response.status_code = 400

\* C20: on both routes a request whose supplier, part_numbers or
\* specifications is missing or empty is answered with a 400-class error and
\* no core function is called; /process_pdf also answers 400, before any core
\* call, when there is no file, an empty filename or a filename not ending in
\* .pdf.
C20_EmptyFieldsRejectedWith400 ==
    /\ CoreNotCalledOnBadRequest
    /\ BadRequestAnswered400


-----------------------------------------------------------------------------
(* C21 *)

\* The results of the 3 slots of the part number gathered last, in the order
\* the slots were issued.
ResultsInIssueOrder == [k \in 1..Slots |-> tasks[k].result]

\* The 3 slots answered AnswerA, AnswerB and AnswerC, in this issue order: one
\* field each for Wt, with the values 2kg, 3kg and 4kg.
AnsweredABC == ResultsInIssueOrder = <<Str(AnswerA), Str(AnswerB), Str(AnswerC)>>

\* C21: the verdicts of a part number are those the Parser and the Aggregator
\* give on the surviving answers taken in slot issue order, whatever the order
\* in which the 3 slots completed; in particular slot answers A, B, C, a
\* three-way tie, always yield the value of A.
C21_VerdictIgnoresCompletionOrder ==
    LastPartAssembled =>
        /\ all_results[Len(all_results)] =
               PartResult(part_numbers[Len(surviving)], Responses(ResultsInIssueOrder),
                          specifications)
        /\ AnsweredABC =>
               \A j \in 1..Len(specifications) :
                   specifications[j] = Wt =>
                       all_results[Len(all_results)].specifications[j].value
                           = <<"2", "k", "g">>

\* Slot answers A, B, C, completed in the order 3, 2, 1, and the verdict built.
C21_Witness ==
    /\ LastPartAssembled
    /\ AnsweredABC
    /\ completed = <<3, 2, 1>>
    /\ all_results[Len(all_results)].specifications[Len(specifications)].value
           = <<"2", "k", "g">>

-----------------------------------------------------------------------------
(* C22 *)

\* What the lines of a section that start, case-insensitively, with the prefix
\* say after their first colon, in line order.
Captured(section, prefix) ==
    LET labelled == SelectSeq(Split(section, <<NL>>),
                              LAMBDA rawline : StartsWith(Lower(Strip(rawline)), prefix))
    IN [k \in 1..Len(labelled) |-> Strip(AfterFirst(Strip(labelled[k]), <<":">>))]

\* The reasoning of a Confidence line: what follows its first comma, nothing
\* when it has no comma.
ReasoningOf(conf_text) ==
    IF Contains(conf_text, <<",">>) THEN Strip(AfterFirst(conf_text, <<",">>)) ELSE <<>>

\* The fields of a specification whose matched section gives the value, the
\* source and the reasoning.
FieldsFrom(value, source, reasoning) ==
    IF value = <<"-">> THEN <<>>
    ELSE <<[value |-> value, source |-> source, reasoning |-> reasoning]>>

\* C22 as stated: within a matched section the first Value, Source and
\* Confidence line determine the field and later ones are ignored.
C22_FirstLineWins ==
    pc = "parsed" =>
        \A j \in 1..Len(specifications) :
            LET m == MatchingSection(Sections(parser_text), specifications[j])
                section == Sections(parser_text)[m]
                values == Captured(section, ValuePrefix)
                sources == Captured(section, SourcePrefix)
                confidences == Captured(section, ConfidencePrefix)
            IN m # 0 =>
                   Get(parser_fields, specifications[j]) =
                       FieldsFrom(IF values = <<>> THEN <<"-">> ELSE values[1],
                                  IF sources = <<>> THEN <<>> ELSE sources[1],
                                  IF confidences = <<>> THEN <<>>
                                  ELSE ReasoningOf(confidences[1]))

\* C22, amended: within a matched section every Value line overwrites the
\* value and every Source line the source, so the last one of each determines
\* the field (no field when the last Value line says "-"); the reasoning is
\* that of the last Confidence line that has a comma.
C22_LastLineWins ==
    pc = "parsed" =>
        \A j \in 1..Len(specifications) :
            LET m == MatchingSection(Sections(parser_text), specifications[j])
                section == Sections(parser_text)[m]
                values == Captured(section, ValuePrefix)
                sources == Captured(section, SourcePrefix)
                confidences == SelectSeq(Captured(section, ConfidencePrefix),
                                         LAMBDA conf_text : Contains(conf_text, <<",">>))
            IN m # 0 =>
                   Get(parser_fields, specifications[j]) =
                       FieldsFrom(IF values = <<>> THEN <<"-">> ELSE values[Len(values)],
                                  IF sources = <<>> THEN <<>> ELSE sources[Len(sources)],
                                  IF confidences = <<>> THEN <<>>
                                  ELSE ReasoningOf(confidences[Len(confidences)]))

\* A Wt section with the Value lines 2kg then 3kg, the Source lines a.com then
\* b.com and the Confidence lines "High, sheet" then "Low, forum": the field
\* holds what the later lines say.
C22_Witness ==
    /\ pc = "parsed"
    /\ Sections(parser_text) # <<>>
    /\ Wt \in DOMAIN parser_fields
    /\ Captured(Sections(parser_text)[1], ValuePrefix)
           = << <<"2", "k", "g">>, <<"3", "k", "g">> >>
    /\ Len(Captured(Sections(parser_text)[1], SourcePrefix)) = 2
    /\ parser_fields[Wt] =
           <<[value |-> <<"3", "k", "g">>,
              source |-> <<"b", ".", "c", "o", "m">>,
              reasoning |-> <<"f", "o", "r", "u", "m">>]>>

-----------------------------------------------------------------------------
(* C23 *)

\* The answers of the part number gathered last: the results that are a str.
SurvivingAnswers ==
    SelectSeq(ResultsInIssueOrder, LAMBDA result : result.type = "str")

\* total_fields of the verdicts for spec: the fields calculate_confidence is
\* handed, those of every surviving answer.
TotalFields(spec) ==
    Len(Get(ProcessResponses(SurvivingAnswers, specifications), spec))

\* C23: a surviving answer contributes at most one field per requested
\* specification, so total_fields of every verdict is at most the number of
\* slots that yielded an answer, at most 3.
C23_AtMostOneFieldPerAnswer ==
    LastPartAssembled =>
        \A j \in 1..Len(specifications) :
            /\ \A k \in 1..Len(SurvivingAnswers) :
                   Len(Get(process_response(SurvivingAnswers[k].chars, specifications),
                           specifications[j])) <= 1
            /\ TotalFields(specifications[j]) <= surviving[Len(surviving)]
            /\ TotalFields(specifications[j]) <= Slots

-----------------------------------------------------------------------------
(* C24 *)

\* search_specification has returned a dict with the key results or error.
Returned ==
    /\ pc = "done"
    /\ ("results" \in DOMAIN response) \/ ("error" \in DOMAIN response)

\* C24: when every upstream call returns or times out, a running
\* search_specification call eventually returns a response, {results} or
\* {error}: the batch of every part number resolves and slots that resolved to
\* no answer do not hold the loop up.
C24_SearchEventuallyReturns == (pc = "for" \/ pc = "gather") ~> Returned

\* A call over 2 part numbers has returned results although the 3 slots of
\* the first part number resolved to no answer.
C24_Witness ==
    /\ Returned
    /\ Len(part_numbers) = 2
    /\ surviving[1] = 0
    /\ "results" \in DOMAIN response
====
